---- MODULE Spec2Model ----
(***************************************************************************)
(* Model of the arrow vector store (src/src/vectorstore.rs): the layered   *)
(* proximity graph, its greedy search, insertion with a per-node degree    *)
(* cap, and persistence to a JSON file.                                    *)
(*                                                                         *)
(* Conventions                                                             *)
(*  - A Uuid is modelled by the ordinal of its generation (1, 2, ...):     *)
(*    Uuid::new_v4 values are fresh, and only their identity matters.      *)
(*  - Positions in a Vec are 1-based here (0-based in the source).         *)
(*  - A HashSet<Uuid> is modelled by the sequence of its elements in       *)
(*    iteration order; the order is chosen nondeterministically whenever   *)
(*    the set is built or grown.                                           *)
(*  - f32 distances are modelled in units of 1/One.  The input vectors are *)
(*    chosen with integral norms whose products divide One, so that dot,   *)
(*    norms and their product are exact in f32 and the one rounded         *)
(*    operation (the division) is monotone: the order and the equalities   *)
(*    of the modelled distances are those of the f32 values.               *)
(***************************************************************************)
EXTENDS Integers, Sequences, FiniteSets, TLC

\* ------------------------------------------------------------------ bounds
MaxNodes      == 4     \* add calls in a behaviour of Spec
MaxQueryNodes == 3     \* add calls in a behaviour of SpecQuery
MaxSavedNodes == 2     \* add calls in a behaviour of SpecPersist
MaxMixedNodes == 3     \* add calls in a behaviour of SpecMixed
MaxLevel      == 1     \* highest finite level a draw can give
MaxK          == 4     \* largest k passed to query
MaxCliNodes   == 2     \* chunks the CLI adds in a behaviour of SpecCli
MaxPieces     == 5     \* pieces of a text given to chunk in SpecChunk
MaxEmbedChunks == 5    \* chunks of a text given to embed in SpecEmbed

\* ------------------------------------------------------- modelling values
One == 25              \* the f32 value 1.0, in distance units
NaN == 0 - 1           \* the f32 NaN (0.0 / 0.0)
Huge == 0 - 2          \* usize::MAX, the result of casting +inf to usize
DEFAULT_CONNECTIONS == 16
ChunkBytes == 512      \* the most bytes chunk packs into one chunk
ThreadCap == 4         \* the most worker threads embed starts
\* A filename is the sequence of its pieces; '#' is always a piece of its own.
NoFile == <<"None">>   \* Option::None for the filename

Min(a, b) == IF a < b THEN a ELSE b
Range(s) == {s[i] : i \in 1..Len(s)}

\* --------------------------------------------------------- distance kernel
RECURSIVE dot_from(_, _, _)
dot_from(v1, v2, i) ==
    IF i > Min(Len(v1), Len(v2)) THEN 0
    ELSE v1[i] * v2[i] + dot_from(v1, v2, i + 1)

RECURSIVE sum_sq_from(_, _)
sum_sq_from(v, i) ==
    IF i > Len(v) THEN 0 ELSE v[i] * v[i] + sum_sq_from(v, i + 1)

\* sqrt of a perfect square (the inputs have integral norms)
sqrt(n) == CHOOSE r \in 0..n : r * r = n

\* f32::clamp; a NaN operand is returned unchanged
clamp(x, lo, hi) == IF x = NaN THEN NaN ELSE IF x < lo THEN lo ELSE IF x > hi THEN hi ELSE x

\* 1.0 - (dot / (n1 * n2)).clamp(-1.0, 1.0); 0.0 / 0.0 is NaN
cosine_distance(v1, v2) ==
    LET dot == dot_from(v1, v2, 1)
        n1  == sqrt(sum_sq_from(v1, 1))
        n2  == sqrt(sum_sq_from(v2, 1))
        quotient == IF n1 * n2 = 0 THEN NaN ELSE (One * dot) \div (n1 * n2)
        clamped  == clamp(quotient, 0 - One, One)
    IN  IF clamped = NaN THEN NaN ELSE One - clamped

\* a.1.partial_cmp(&b.1): None when an operand is NaN
partial_cmp(a, b) ==
    IF a = NaN \/ b = NaN THEN "None"
    ELSE IF a < b THEN "Less" ELSE IF a > b THEN "Greater" ELSE "Equal"

\* ------------------------------------------------------------ greedy search
\* Vec::sort_by is a stable sort: an element is placed after the elements
\* that do not compare Greater than it.
RECURSIVE insert_stable(_, _)
insert_stable(sorted, x) ==
    IF sorted = <<>> THEN <<x>>
    ELSE LET last == sorted[Len(sorted)] IN
         IF partial_cmp(last[2], x[2]) = "Greater"
         THEN Append(insert_stable(SubSeq(sorted, 1, Len(sorted) - 1), x), last)
         ELSE Append(sorted, x)

RECURSIVE sort_from(_, _, _)
sort_from(s, i, acc) ==
    IF i > Len(s) THEN acc ELSE sort_from(s, i + 1, insert_stable(acc, s[i]))

\* (mutant) best is left in the order of the pushes
sort_by_unsorted(s) == s

sort_by(s) == sort_from(s, 1, <<>>)

\* The unwrap of partial_cmp panics when a comparison meets a NaN; sorting
\* two or more elements compares every element at least once.
sort_panics(s) == Len(s) >= 2 /\ \E i \in 1..Len(s) : s[i][2] = NaN

\* let current = best[0]
current_of(best) == best[1]

\* (mutant) the closest retained node is dropped instead of the farthest
truncate_front(best, k) == IF Len(best) > k THEN SubSeq(best, 2, Len(best)) ELSE best

\* if best.len() > k { best.pop(); }
truncate(best, k) == IF Len(best) > k THEN SubSeq(best, 1, Len(best) - 1) ELSE best

\* The for loop over the neighbors of the current node, from position i of
\* the iteration order nbrs.  st = [best, visited, improved, passes, panic].
RECURSIVE scan_neighbors(_, _, _, _, _, _)
scan_neighbors(layer, query, k, nbrs, i, st) ==
    IF st.panic \/ i > Len(nbrs) THEN st
    ELSE LET neighbor_id == nbrs[i] IN
         IF neighbor_id \in st.visited
         THEN scan_neighbors(layer, query, k, nbrs, i + 1, st)
         ELSE IF neighbor_id \notin DOMAIN layer.id_to_index
                 \/ layer.id_to_index[neighbor_id] \notin 1..Len(layer.nodes)
         THEN [st EXCEPT !.visited = @ \cup {neighbor_id}, !.panic = TRUE]
         ELSE LET dist   == cosine_distance(query, layer.nodes[layer.id_to_index[neighbor_id]].vector)
                  pushed == Append(st.best, <<neighbor_id, dist>>)
                  sorted == sort_by(pushed)
                  popped == truncate(sorted, k)
              IN  IF sort_panics(pushed)
                  THEN [st EXCEPT !.visited = @ \cup {neighbor_id}, !.best = pushed, !.panic = TRUE]
                  ELSE scan_neighbors(layer, query, k, nbrs, i + 1,
                         [st EXCEPT !.visited = @ \cup {neighbor_id}, !.best = popped, !.improved = TRUE])

\* The loop of find_nearest: expand best[0] until a pass visits nothing new.
RECURSIVE search_loop(_, _, _, _)

\* (mutant) the loop goes on after a pass that visited nothing new
after_pass_again(layer, query, k, pass) ==
    IF pass.panic \/ (~pass.improved /\ pass.passes > Len(layer.nodes) + 1) THEN pass
    ELSE search_loop(layer, query, k, pass)

\* if !improved { break; }
after_pass(layer, query, k, pass) ==
    IF pass.panic \/ ~pass.improved THEN pass ELSE search_loop(layer, query, k, pass)

search_loop(layer, query, k, st) ==
    LET current == current_of(st.best) IN
    IF current[1] \notin DOMAIN layer.id_to_index
       \/ layer.id_to_index[current[1]] \notin 1..Len(layer.nodes)
    THEN [st EXCEPT !.panic = TRUE]
    ELSE after_pass(layer, query, k,
            scan_neighbors(layer, query, k,
                           layer.nodes[layer.id_to_index[current[1]]].neighbors, 1,
                           [st EXCEPT !.improved = FALSE, !.passes = @ + 1]))

\* (mutant) no early return for an empty layer: nodes[0] is out of bounds
find_nearest_run_unguarded(layer, query, k) ==
    IF layer.nodes = <<>>
    THEN [best |-> <<>>, visited |-> {}, improved |-> FALSE, passes |-> 0, panic |-> TRUE]
    ELSE LET first_id == layer.nodes[1].id IN
         search_loop(layer, query, k,
            [best |-> << <<first_id, cosine_distance(query, layer.nodes[1].vector)>> >>,
             visited |-> {first_id}, improved |-> FALSE, passes |-> 0, panic |-> FALSE])

\* (mutant) the search starts at the last node of the layer
find_nearest_run_last(layer, query, k) ==
    IF layer.nodes = <<>>
    THEN [best |-> <<>>, visited |-> {}, improved |-> FALSE, passes |-> 0, panic |-> FALSE]
    ELSE LET first_id == layer.nodes[Len(layer.nodes)].id IN
         search_loop(layer, query, k,
            [best |-> << <<first_id, cosine_distance(query, layer.nodes[Len(layer.nodes)].vector)>> >>,
             visited |-> {first_id}, improved |-> FALSE, passes |-> 0, panic |-> FALSE])

find_nearest_run(layer, query, k) ==
    IF layer.nodes = <<>>
    THEN [best |-> <<>>, visited |-> {}, improved |-> FALSE, passes |-> 0, panic |-> FALSE]
    ELSE LET first_id == layer.nodes[1].id IN
         search_loop(layer, query, k,
            [best |-> << <<first_id, cosine_distance(query, layer.nodes[1].vector)>> >>,
             visited |-> {first_id}, improved |-> FALSE, passes |-> 0, panic |-> FALSE])


\* ------------------------------------------------------------------- state
VARIABLES
    layers,           \* Vec<Layer>; Layer = [nodes, id_to_index]; Node = [id, vector, neighbors]
    texts,            \* HashMap<Uuid, String>
    filenames,        \* HashMap<Uuid, String>
    max_connections,  \* usize
    m_l,              \* f32, kept symbolically: [class, of]
    file,             \* the content of the store file on disk
    uuids,            \* number of Uuids generated so far
    outcome,          \* what the last operation returned
    added,            \* history: what the successful CLI add commands have added
    embed_text,       \* embedder: the &str given to chunk or embed
    embed_chunks,     \* embedder: the Vec<String> chunk returned
    pc,               \* embedder: where the calling thread is
    chunk_batches,    \* embedder: Vec<Vec<String>>, one batch per worker
    threads,          \* embedder: the workers spawned so far, [pc, ok] each
    channel,          \* embedder: the messages sent and not yet received
    ordered_results,  \* embedder: what receiver.iter() has yielded, as it arrived
    result            \* embedder: what embed returned

embed_vars == <<embed_text, embed_chunks, pc, chunk_batches, threads, channel, ordered_results, result>>
vars == <<layers, texts, filenames, max_connections, m_l, file, uuids, outcome, added,
          embed_vars>>
store_vars == <<layers, texts, filenames, max_connections, m_l>>

EmptyMap == [x \in {} |-> x]

\* no call of the embedder is under way
NoResult == [ok |-> FALSE, tensors |-> <<>>]
EmbedIdle ==
    /\ embed_text = <<>>
    /\ embed_chunks = <<>>
    /\ pc = "idle"
    /\ chunk_batches = <<>>
    /\ threads = <<>>
    /\ channel = <<>>
    /\ ordered_results = <<>>
    /\ result = NoResult
EmptyLayer == [nodes |-> <<>>, id_to_index |-> EmptyMap]

\* 1.0 / (max_connections as f32).ln(): ln 0 = -inf gives -0.0, ln 1 = 0
\* gives +inf, and a finite positive value otherwise.
m_l_of(M) ==
    [class |-> IF M = 0 THEN "negzero" ELSE IF M = 1 THEN "inf" ELSE "finite", of |-> M]

\* (-r.ln() * m_l).floor() as usize for r drawn from [0, 1): the cast
\* saturates, so +inf gives usize::MAX and -0.0 or NaN give 0.
level_draws(ml) ==
    IF ml.class = "negzero" THEN {0}
    ELSE IF ml.class = "inf" THEN {Huge}
    ELSE (0..MaxLevel) \cup {Huge}

\* A Tensor is [rank, data]; to_vec1::<f32>() succeeds on rank 1 only.
to_vec1(t) == IF t.rank = 1 THEN [ok |-> TRUE, vec |-> t.data] ELSE [ok |-> FALSE, vec |-> <<>>]

\* ---------------------------------------------------------------- HashSet
Perms(S) == {p \in [1..Cardinality(S) -> S] : \A i, j \in 1..Cardinality(S) : p[i] = p[j] => i = j}

InsertAt(s, i, x) == SubSeq(s, 1, i - 1) \o <<x>> \o SubSeq(s, i, Len(s))

\* (mutant) the inserted element takes the place of the others
hash_set_insert_replace(s, x) == {<<x>>}

\* HashSet::insert: a present element changes nothing; a new element lands
\* in any bucket, and when the table grows (4th and 8th element) every
\* element is rehashed.
hash_set_insert(s, x) ==
    IF x \in Range(s) THEN {s}
    ELSE IF Len(s) \in {3, 7} THEN Perms(Range(s) \cup {x})
    ELSE {InsertAt(s, i, x) : i \in 1..(Len(s) + 1)}

\* ---------------------------------------------------------------- linking
\* (mutant) the reverse link is inserted without the degree check
connect_nodes_uncapped(layer, M, id1, id2) ==
    LET index1 == layer.id_to_index[id1]
        index2 == layer.id_to_index[id2]
        after1 == IF Len(layer.nodes[index1].neighbors) < M
                  THEN {[layer EXCEPT !.nodes[index1].neighbors = o] :
                            o \in hash_set_insert(layer.nodes[index1].neighbors, id2)}
                  ELSE {layer}
    IN  UNION {{[l1 EXCEPT !.nodes[index2].neighbors = o] :
                   o \in hash_set_insert(l1.nodes[index2].neighbors, id1)} : l1 \in after1}

\* (mutant) only the reverse link is made
connect_nodes_reverse_only(layer, M, id1, id2) ==
    LET index2 == layer.id_to_index[id2]
    IN  IF Len(layer.nodes[index2].neighbors) < M
        THEN {[layer EXCEPT !.nodes[index2].neighbors = o] :
                  o \in hash_set_insert(layer.nodes[index2].neighbors, id1)}
        ELSE {layer}

\* (mutant) the reverse link is refused one element before the cap
connect_nodes_early(layer, M, id1, id2) ==
    LET index1 == layer.id_to_index[id1]
        index2 == layer.id_to_index[id2]
        after1 == IF Len(layer.nodes[index1].neighbors) < M
                  THEN {[layer EXCEPT !.nodes[index1].neighbors = o] :
                            o \in hash_set_insert(layer.nodes[index1].neighbors, id2)}
                  ELSE {layer}
    IN  UNION {IF Len(l1.nodes[index2].neighbors) + 1 < M
               THEN {[l1 EXCEPT !.nodes[index2].neighbors = o] :
                         o \in hash_set_insert(l1.nodes[index2].neighbors, id1)}
               ELSE {l1} : l1 \in after1}

connect_nodes(layer, M, id1, id2) ==
    LET index1 == layer.id_to_index[id1]
        index2 == layer.id_to_index[id2]
        after1 == IF Len(layer.nodes[index1].neighbors) < M
                  THEN {[layer EXCEPT !.nodes[index1].neighbors = o] :
                            o \in hash_set_insert(layer.nodes[index1].neighbors, id2)}
                  ELSE {layer}
    IN  UNION {IF Len(l1.nodes[index2].neighbors) < M
               THEN {[l1 EXCEPT !.nodes[index2].neighbors = o] :
                         o \in hash_set_insert(l1.nodes[index2].neighbors, id1)}
               ELSE {l1} : l1 \in after1}

\* while self.layers.len() <= max_level { push an empty layer }
RECURSIVE grow_layers(_, _)
grow_layers(ls, max_level) ==
    IF Len(ls) <= max_level THEN grow_layers(Append(ls, EmptyLayer), max_level) ELSE ls

\* for level in 0..=max_level: push the node, then link it to the nearest
\* node the search of that layer returns.  The set of the possible results
\* [layers, panic], one per choice of HashSet iteration orders.
RECURSIVE add_levels(_, _, _, _, _, _)

\* (mutant) the node is pushed into its top layer only
add_levels_top(ls, M, id, vector, level, max_level) ==
    IF level > max_level THEN {[layers |-> ls, panic |-> FALSE]}
    ELSE IF level < max_level THEN add_levels(ls, M, id, vector, max_level, max_level)
    ELSE LET new_node   == [id |-> id, vector |-> vector, neighbors |-> <<>>]
             node_index == Len(ls[level + 1].nodes) + 1
             pushed     == [ls EXCEPT ![level + 1] =
                               [nodes |-> Append(@.nodes, new_node),
                                id_to_index |-> (id :> node_index) @@ @.id_to_index]]
         IN  IF Len(pushed[level + 1].nodes) > 1
             THEN LET run == find_nearest_run(pushed[level + 1], vector, 1) IN
                  IF run.panic THEN {[layers |-> pushed, panic |-> TRUE]}
                  ELSE UNION {add_levels([pushed EXCEPT ![level + 1] = linked], M, id, vector,
                                         level + 1, max_level) :
                                 linked \in connect_nodes(pushed[level + 1], M, id, run.best[1][1])}
             ELSE add_levels(pushed, M, id, vector, level + 1, max_level)

\* (mutant) node_index is read after the push
add_levels_index(ls, M, id, vector, level, max_level) ==
    IF level > max_level THEN {[layers |-> ls, panic |-> FALSE]}
    ELSE LET new_node   == [id |-> id, vector |-> vector, neighbors |-> <<>>]
             node_index == Len(ls[level + 1].nodes) + 2
             pushed     == [ls EXCEPT ![level + 1] =
                               [nodes |-> Append(@.nodes, new_node),
                                id_to_index |-> (id :> node_index) @@ @.id_to_index]]
         IN  IF Len(pushed[level + 1].nodes) > 1
             THEN LET run == find_nearest_run(pushed[level + 1], vector, 1) IN
                  IF run.panic THEN {[layers |-> pushed, panic |-> TRUE]}
                  ELSE UNION {add_levels([pushed EXCEPT ![level + 1] = linked], M, id, vector,
                                         level + 1, max_level) :
                                 linked \in connect_nodes(pushed[level + 1], M, id, run.best[1][1])}
             ELSE add_levels(pushed, M, id, vector, level + 1, max_level)

add_levels(ls, M, id, vector, level, max_level) ==
    IF level > max_level THEN {[layers |-> ls, panic |-> FALSE]}
    ELSE LET new_node   == [id |-> id, vector |-> vector, neighbors |-> <<>>]
             node_index == Len(ls[level + 1].nodes) + 1
             pushed     == [ls EXCEPT ![level + 1] =
                               [nodes |-> Append(@.nodes, new_node),
                                id_to_index |-> (id :> node_index) @@ @.id_to_index]]
         IN  IF Len(pushed[level + 1].nodes) > 1
             THEN LET run == find_nearest_run(pushed[level + 1], vector, 1) IN
                  IF run.panic THEN {[layers |-> pushed, panic |-> TRUE]}
                  ELSE UNION {add_levels([pushed EXCEPT ![level + 1] = linked], M, id, vector,
                                         level + 1, max_level) :
                                 linked \in connect_nodes(pushed[level + 1], M, id, run.best[1][1])}
             ELSE add_levels(pushed, M, id, vector, level + 1, max_level)

\* visited and passes are those of the search a query ends with
NoOutcome == [op |-> "new", res |-> "Ok", id |-> 0, q |-> [rank |-> 1, data |-> <<>>], k |-> 0,
              nearest |-> <<>>, rows |-> <<>>, visited |-> {}, passes |-> 0]

\* ------------------------------------------------------------------- query
\* The descent of query: every non-empty layer from the top is searched
\* with k = 1 and the result kept as entry_point; TRUE when one of these
\* searches panics.  Level l is layers[l + 1].
RECURSIVE descent_panics(_, _, _)
descent_panics(ls, q, level) ==
    IF level < 0 THEN FALSE
    ELSE IF ls[level + 1].nodes = <<>> THEN descent_panics(ls, q, level - 1)
    ELSE find_nearest_run(ls[level + 1], q, 1).panic
         \/ (level > 0 /\ descent_panics(ls, q, level - 1))

\* entry_point after the descent (unused by the final search)
RECURSIVE entry_point_from(_, _, _, _)
entry_point_from(ls, q, level, ep) ==
    IF level < 0 THEN ep
    ELSE IF ls[level + 1].nodes = <<>> THEN entry_point_from(ls, q, level - 1, ep)
    ELSE LET found == find_nearest_run(ls[level + 1], q, 1).best[1] IN
         IF level = 0 THEN found ELSE entry_point_from(ls, q, level - 1, found)

\* the rows (text, 1.0 - dist, filename) of the ids found at layer 0
row_of(tx, fn, e) ==
    <<tx[e[1]], IF e[2] = NaN THEN NaN ELSE One - e[2],
      IF e[1] \in DOMAIN fn THEN fn[e[1]] ELSE NoFile>>

\* the final search of layer 0 and the mapping of its result to rows
rows_of(tx, fn, run) ==
    CHOOSE out \in {
        IF r.panic \/ \E i \in 1..Len(r.best) : r.best[i][1] \notin DOMAIN tx
        THEN [res |-> "panic", nearest |-> <<>>, rows |-> <<>>,
              visited |-> r.visited, passes |-> r.passes]
        ELSE [res |-> "Ok", nearest |-> r.best,
              rows |-> [i \in 1..Len(r.best) |-> row_of(tx, fn, r.best[i])],
              visited |-> r.visited, passes |-> r.passes] : r \in {run}} : TRUE

query_run(ls, tx, fn, tensor, k) ==
    IF ~to_vec1(tensor).ok
    THEN [res |-> "Err", nearest |-> <<>>, rows |-> <<>>, visited |-> {}, passes |-> 0]
    ELSE IF descent_panics(ls, to_vec1(tensor).vec, Len(ls) - 1)
    THEN [res |-> "panic", nearest |-> <<>>, rows |-> <<>>, visited |-> {}, passes |-> 0]
    ELSE rows_of(tx, fn, find_nearest_run(ls[1], to_vec1(tensor).vec, k))

\* ------------------------------------------------------------- persistence
\* serde_json writes a non-finite f32 as null and a finite one as a decimal
\* that reads back as the same f32.
json_of_f32(x) == IF x.class = "inf" THEN [class |-> "null", of |-> 0] ELSE x

\* serde_json::to_writer(file, self): the derived Serialize writes every
\* field but device; a HashSet is written as an array in iteration order.
serialize(ls, tx, fn, M, ml) ==
    [layers |-> ls, texts |-> tx, filenames |-> fn, max_connections |-> M,
     m_l |-> json_of_f32(ml)]

NoDoc == [layers |-> <<>>, texts |-> EmptyMap, filenames |-> EmptyMap,
          max_connections |-> 0, m_l |-> [class |-> "null", of |-> 0]]

Absent == [kind |-> "absent", doc |-> NoDoc]
Truncated == [kind |-> "truncated", doc |-> NoDoc]

\* A HashSet read from an array iterates in any order.
RECURSIVE read_nodes(_, _)
read_nodes(nodes, i) ==
    IF i > Len(nodes) THEN {<<>>}
    ELSE {<<[nodes[i] EXCEPT !.neighbors = o]>> \o rest :
             o \in Perms(Range(nodes[i].neighbors)), rest \in read_nodes(nodes, i + 1)}

RECURSIVE read_layers(_, _)
read_layers(ls, l) ==
    IF l > Len(ls) THEN {<<>>}
    ELSE {<<[ls[l] EXCEPT !.nodes = ns]>> \o rest :
             ns \in read_nodes(ls[l].nodes, 1), rest \in read_layers(ls, l + 1)}

\* serde_json::from_str: the derived Deserialize takes the fields as they
\* are written, with no validation; null is not an f32.
deserialize_ok(f) == f.kind = "json" /\ f.doc.m_l.class # "null"

\* --------------------------------------------------------------- the store
\* VectorStore::new(device, M)
new(M) ==
    [layers |-> <<EmptyLayer>>, texts |-> EmptyMap, filenames |-> EmptyMap,
     max_connections |-> M, m_l |-> m_l_of(M)]

\* the store held in the variables
self ==
    [layers |-> layers, texts |-> texts, filenames |-> filenames,
     max_connections |-> max_connections, m_l |-> m_l]

\* add_with_filename on the store st, n Uuids having been generated: the
\* outcomes [res, id, uuids, st].  to_vec1 fails before anything changes;
\* a level of usize::MAX grows the layer stack until memory is exhausted;
\* a panic in the search leaves the node pushed and no payload.
add_run(st, n, embedding, text, filename) ==
    LET v  == to_vec1(embedding)
        id == n + 1
    IN  IF ~v.ok THEN {[res |-> "Err", id |-> 0, uuids |-> n, st |-> st]}
        ELSE UNION {
               IF max_level = Huge
               THEN {[res |-> "abort", id |-> id, uuids |-> id, st |-> st]}
               ELSE {[res |-> IF r.panic THEN "panic" ELSE "Ok", id |-> id, uuids |-> id,
                      st |-> IF r.panic THEN [st EXCEPT !.layers = r.layers]
                             ELSE [st EXCEPT !.layers = r.layers,
                                             !.texts = (id :> text) @@ @,
                                             !.filenames = IF filename = NoFile THEN @
                                                           ELSE (id :> filename) @@ @]] :
                        r \in add_levels(grow_layers(st.layers, max_level),
                                         st.max_connections, id, v.vec, 0, max_level)} :
               max_level \in level_draws(st.m_l)}

\* ----------------------------------------------------------------- actions
NoneAdded == [chunks |-> 0, paths |-> {}]

alive == outcome.res \notin {"panic", "abort"}

\* The values of M a store is created with: 0 (m_l = -0.0, every node on
\* layer 0 and no link), 1 (m_l = +inf) and 2 (the smallest M for which
\* the level draw is finite and links are made).
Connections == {0, 1, 2}

\* VectorStore::new(device, M)
Init ==
    /\ max_connections \in Connections
    /\ m_l = m_l_of(max_connections)
    /\ layers = <<EmptyLayer>>
    /\ texts = EmptyMap
    /\ filenames = EmptyMap
    /\ file = Absent
    /\ uuids = 0
    /\ outcome = NoOutcome
    /\ added = NoneAdded
    /\ EmbedIdle

add_with_filename(embedding, text, filename) ==
    /\ alive
    /\ \E r \in add_run(self, uuids, embedding, text, filename) :
         /\ layers' = r.st.layers
         /\ texts' = r.st.texts
         /\ filenames' = r.st.filenames
         /\ uuids' = r.uuids
         /\ outcome' = [NoOutcome EXCEPT !.op = "add", !.res = r.res, !.id = r.id, !.q = embedding]
    /\ UNCHANGED <<max_connections, m_l, file, added, embed_vars>>

query(query_embedding, k) ==
    /\ alive
    /\ \E r \in {query_run(layers, texts, filenames, query_embedding, k)} :
         outcome' = [NoOutcome EXCEPT !.op = "query", !.res = r.res, !.q = query_embedding,
                                      !.k = k, !.nearest = r.nearest, !.rows = r.rows,
                                      !.visited = r.visited, !.passes = r.passes]
    /\ UNCHANGED <<store_vars, file, uuids, added, embed_vars>>

\* save of the store st over the file f.  File::create fails and leaves the
\* file; or it truncates the file and the write fails part way; or every
\* byte is written.
save_run(st, f) ==
    {[res |-> "Err", file |-> f],
     [res |-> "Err", file |-> Truncated],
     [res |-> "Ok",
      file |-> [kind |-> "json",
                doc |-> serialize(st.layers, st.texts, st.filenames, st.max_connections, st.m_l)]]}

save ==
    /\ alive
    /\ \E io \in save_run(self, file) :
         /\ file' = io.file
         /\ outcome' = [NoOutcome EXCEPT !.op = "save", !.res = io.res]
    /\ UNCHANGED <<store_vars, uuids, added, embed_vars>>

\* load of the file f: the stores it can give
load_run(f) ==
    {[layers |-> ls, texts |-> f.doc.texts, filenames |-> f.doc.filenames,
      max_connections |-> f.doc.max_connections, m_l |-> f.doc.m_l] :
        ls \in read_layers(f.doc.layers, 1)}

load ==
    /\ alive
    /\ IF deserialize_ok(file)
       THEN /\ layers' \in read_layers(file.doc.layers, 1)
            /\ texts' = file.doc.texts
            /\ filenames' = file.doc.filenames
            /\ max_connections' = file.doc.max_connections
            /\ m_l' = file.doc.m_l
            /\ outcome' = [NoOutcome EXCEPT !.op = "load"]
       ELSE /\ outcome' = [NoOutcome EXCEPT !.op = "load", !.res = "Err"]
            /\ UNCHANGED store_vars
    /\ UNCHANGED <<file, uuids, added, embed_vars>>

\* text_count(): self.texts.len()
text_count(st) == Cardinality(DOMAIN st.texts)

\* (mutant) the ids are the keys of filenames
get_all_ids_of_filenames(st) == DOMAIN st.filenames

\* get_all_ids(): self.texts.keys()
get_all_ids(st) == DOMAIN st.texts

\* get_embedding(id): the text and the filename of id, None without a text
get_embedding(st, id) ==
    IF id \in DOMAIN st.texts
    THEN <<st.texts[id], IF id \in DOMAIN st.filenames THEN st.filenames[id] ELSE NoFile>>
    ELSE <<>>

\* ids of the nodes of a layer
layer_ids(layer) == {layer.nodes[i].id : i \in 1..Len(layer.nodes)}

\* some neighbor list of the document names an id that no node of its layer has
dangling(doc) ==
    \E l \in 1..Len(doc.layers) : \E i \in 1..Len(doc.layers[l].nodes) :
        ~(Range(doc.layers[l].nodes[i].neighbors) \subseteq layer_ids(doc.layers[l]))

\* The environment edits the file: one neighbor array gets an id that is
\* not the id of a node of that layer.
corrupt_file(l, i, x) ==
    /\ file.kind = "json"
    /\ ~dangling(file.doc)
    /\ l \in 1..Len(file.doc.layers)
    /\ i \in 1..Len(file.doc.layers[l].nodes)
    /\ x \notin layer_ids(file.doc.layers[l])
    /\ file' = [file EXCEPT !.doc.layers[l].nodes[i].neighbors = Append(@, x)]
    /\ UNCHANGED <<store_vars, uuids, outcome, added, embed_vars>>

\* ---------------------------------------------------------------- embedder
\* A text is the sequence of its pieces [w, len]: words with their length
\* in bytes, and whitespace.
Whitespace == {" ", "\n"}
Piece(w, n) == [w |-> w, len |-> n]
EmptyString == [text |-> <<>>, len |-> 0]

\* text.split_whitespace()
split_whitespace(text) == SelectSeq(text, LAMBDA p : p.w \notin Whitespace)

\* (mutant) the loop of chunk never starts a new chunk
RECURSIVE chunk_from_unbounded(_, _, _, _)
chunk_from_unbounded(words, i, current_chunk, chunks) ==
    IF i > Len(words)
    THEN IF current_chunk.len # 0 THEN Append(chunks, current_chunk) ELSE chunks
    ELSE LET word == words[i] IN
         IF current_chunk.len = 0
         THEN chunk_from_unbounded(words, i + 1, [text |-> <<word.w>>, len |-> word.len], chunks)
         ELSE chunk_from_unbounded(words, i + 1,
                         [text |-> current_chunk.text \o <<" ", word.w>>,
                          len |-> current_chunk.len + 1 + word.len], chunks)

\* The loop of chunk over the words from position i; a String is kept as
\* [text, len].
RECURSIVE chunk_from(_, _, _, _)
chunk_from(words, i, current_chunk, chunks) ==
    IF i > Len(words)
    THEN IF current_chunk.len # 0 THEN Append(chunks, current_chunk) ELSE chunks
    ELSE LET word == words[i] IN
         IF current_chunk.len = 0
         THEN chunk_from(words, i + 1, [text |-> <<word.w>>, len |-> word.len], chunks)
         ELSE IF current_chunk.len + word.len + 1 <= ChunkBytes
         THEN chunk_from(words, i + 1,
                         [text |-> current_chunk.text \o <<" ", word.w>>,
                          len |-> current_chunk.len + 1 + word.len], chunks)
         ELSE chunk_from(words, i + 1, [text |-> <<word.w>>, len |-> word.len],
                         Append(chunks, current_chunk))

chunk(text) == chunk_from(split_whitespace(text), 1, EmptyString, <<>>)

\* The sentence-embedding model is a fixed function of the chunk; here the
\* first word decides the direction.
encode(c) == IF c.text[1] = "lorem" THEN <<1, 0>> ELSE <<4, 3>>

\* embed(text): no tensor for no chunk; otherwise the model fails, or
\* there is one rank-1 tensor per chunk, in chunk order.
embed(text) ==
    LET chunks == chunk(text) IN
    IF chunks = <<>> THEN {[ok |-> TRUE, tensors |-> <<>>]}
    ELSE {[ok |-> FALSE, tensors |-> <<>>],
          [ok |-> TRUE, tensors |-> [i \in 1..Len(chunks) |-> [rank |-> 1, data |-> encode(chunks[i])]]]}

\* A call of chunk on its own.
chunk_call ==
    /\ pc = "call"
    /\ embed_chunks' = chunk(embed_text)
    /\ pc' = "chunked"
    /\ UNCHANGED <<store_vars, file, uuids, outcome, added, embed_text, chunk_batches,
                   threads, channel, ordered_results, result>>

\* model.encode(&batch): one embedding per sentence
encode_batch(batch) == [j \in 1..Len(batch) |-> encode(batch[j])]

\* convert_to_tensors: one rank-1 tensor per embedding
convert_to_tensors(embeddings) ==
    [ok |-> TRUE,
     tensors |-> [i \in 1..Len(embeddings) |-> [rank |-> 1, data |-> embeddings[i]]]]

\* The loop for i in 0..num_threads that cuts the batches; a range that
\* starts past the end gives no batch.
RECURSIVE batches_from(_, _, _, _)
batches_from(cs, num_threads, chunk_size, i) ==
    IF i >= num_threads THEN <<>>
    ELSE LET start == i * chunk_size
             end == Min(start + chunk_size, Len(cs)) IN
         (IF start < end THEN <<SubSeq(cs, start + 1, end)>> ELSE <<>>)
            \o batches_from(cs, num_threads, chunk_size, i + 1)

\* (mutant) the results stay in the order of their arrival
sort_by_key_arrival(results) == results

\* ordered_results.sort_by_key(|(idx, _)| *idx), a stable sort: a result
\* comes after those of a smaller index and the earlier ones of its own.
sort_by_key(results) ==
    LET before(j) == {k \in 1..Len(results) :
                        \/ results[k].idx < results[j].idx
                        \/ results[k].idx = results[j].idx /\ k < j} IN
    [i \in 1..Len(results) |->
        results[CHOOSE j \in 1..Len(results) : Cardinality(before(j)) = i - 1]]

\* The loop over the sorted results from position i: the first Err is
\* returned, the embeddings of the others are appended.
RECURSIVE all_embeddings_from(_, _, _)
all_embeddings_from(results, i, all_embeddings) ==
    IF i > Len(results) THEN convert_to_tensors(all_embeddings)
    ELSE IF results[i].ok
    THEN all_embeddings_from(results, i + 1, all_embeddings \o results[i].embeddings)
    ELSE NoResult

\* embed up to the spawning of the workers: the text is chunked; no chunk
\* gives no tensor; one chunk is encoded by the caller; more chunks are cut
\* into batches and the channel is made.
embed_start ==
    /\ pc = "call"
    /\ embed_chunks' = chunk(embed_text)
    /\ LET num_chunks == Len(embed_chunks')
           num_threads == Min(ThreadCap, num_chunks) IN
       IF num_chunks = 0
       THEN /\ result' = [ok |-> TRUE, tensors |-> <<>>]
            /\ pc' = "returned"
            /\ UNCHANGED chunk_batches
       ELSE IF num_threads <= 1
       THEN /\ result' \in {NoResult, convert_to_tensors(encode_batch(embed_chunks'))}
            /\ pc' = "returned"
            /\ UNCHANGED chunk_batches
       ELSE /\ chunk_batches' =
                  batches_from(embed_chunks', num_threads,
                               (num_chunks + num_threads - 1) \div num_threads, 0)
            /\ pc' = "spawn"
            /\ UNCHANGED result
    /\ UNCHANGED <<store_vars, file, uuids, outcome, added, embed_text,
                   threads, channel, ordered_results>>

\* thread::spawn for the next batch
spawn ==
    /\ pc = "spawn"
    /\ Len(threads) < Len(chunk_batches)
    /\ threads' = Append(threads, [pc |-> "run", ok |-> TRUE])
    /\ UNCHANGED <<store_vars, file, uuids, outcome, added, embed_text, embed_chunks, pc,
                   chunk_batches, channel, ordered_results, result>>

\* drop(sender), after the last spawn; the caller goes on to receive
drop_sender ==
    /\ pc = "spawn"
    /\ Len(threads) = Len(chunk_batches)
    /\ pc' = "collect"
    /\ UNCHANGED <<store_vars, file, uuids, outcome, added, embed_text, embed_chunks,
                   chunk_batches, threads, channel, ordered_results, result>>

\* Worker thread_idx = t - 1 makes its model and encodes its batch, which
\* succeeds or fails, and sends the result with its index.
worker_send(t) ==
    /\ t \in 1..Len(threads)
    /\ threads[t].pc = "run"
    /\ \E ok \in BOOLEAN :
         /\ threads' = [threads EXCEPT ![t] = [pc |-> "sent", ok |-> ok]]
         /\ channel' = Append(channel,
                [idx |-> t - 1, ok |-> ok,
                 embeddings |-> IF ok THEN encode_batch(chunk_batches[t]) ELSE <<>>])
    /\ UNCHANGED <<store_vars, file, uuids, outcome, added, embed_text, embed_chunks, pc,
                   chunk_batches, ordered_results, result>>

\* The closure of worker t ends and its thread_sender is dropped.
worker_exit(t) ==
    /\ t \in 1..Len(threads)
    /\ threads[t].pc = "sent"
    /\ threads' = [threads EXCEPT ![t].pc = "exit"]
    /\ UNCHANGED <<store_vars, file, uuids, outcome, added, embed_text, embed_chunks, pc,
                   chunk_batches, channel, ordered_results, result>>

\* receiver.iter() yields the next message
receive ==
    /\ pc = "collect"
    /\ channel # <<>>
    /\ ordered_results' = Append(ordered_results, Head(channel))
    /\ channel' = Tail(channel)
    /\ UNCHANGED <<store_vars, file, uuids, outcome, added, embed_text, embed_chunks, pc,
                   chunk_batches, threads, result>>

\* receiver.iter() ends when the queue is empty and every sender is
\* dropped; the results are sorted by index and flattened.
embed_finish ==
    /\ pc = "collect"
    /\ channel = <<>>
    /\ \A t \in 1..Len(threads) : threads[t].pc = "exit"
    /\ \E sorted \in {sort_by_key(ordered_results)} :
          result' = all_embeddings_from(sorted, 1, <<>>)
    /\ pc' = "returned"
    /\ UNCHANGED <<store_vars, file, uuids, outcome, added, embed_text, embed_chunks,
                   chunk_batches, threads, channel, ordered_results>>

\* --------------------------------------------------------------------- CLI
\* usize to_string: the decimal digits
Digits == <<"0", "1", "2", "3", "4", "5", "6", "7", "8", "9">>
RECURSIVE to_string(_)
to_string(n) ==
    IF n < 10 THEN <<Digits[n + 1]>>
    ELSE to_string(n \div 10) \o <<Digits[(n % 10) + 1]>>

\* filename.split('#').next(): the pieces before the first '#'
RECURSIVE split_next(_, _)
split_next(filename, i) ==
    IF i > Len(filename) \/ filename[i] = "#" THEN SubSeq(filename, 1, i - 1)
    ELSE split_next(filename, i + 1)

\* The files of the working directory: a path is a filename, the content
\* a text.
Disk ==
    (<<"a.txt">> :> <<Piece("lorem", 300), Piece(" ", 1), Piece("ipsum", 300)>>)
    @@ (<<"notes", "#", "1.txt">> :> <<Piece("lorem", 200), Piece("\n", 1), Piece("dolor", 311)>>)
    @@ (<<"notes", "#", "2.txt">> :> <<Piece("ipsum", 300), Piece("\n", 1)>>)
    @@ (<<"b.txt">> :> <<Piece(" ", 1), Piece("dolor", 513)>>)
    @@ (<<"empty.txt">> :> <<Piece("\n", 1)>>)

\* Path::new(file_path).exists()
path_exists(file_path) == file_path \in DOMAIN Disk

\* fs::read_to_string(file_path), which can fail
read_to_string(file_path) ==
    {[ok |-> FALSE, content |-> <<>>], [ok |-> TRUE, content |-> Disk[file_path]]}

\* What a command reports: its exit, and the numbers info prints.  For add
\* also the step it ended in and the chunks it had inserted in memory.
CliOutcome(op, res) ==
    [op |-> op, res |-> res, count |-> 0, source_files |-> 0, step |-> "", inserted |-> 0]

\* The loop over chunks.zip(embeddings).enumerate() from index i: the
\* first add that fails ends it.  The outcomes [res, st, uuids].
RECURSIVE add_chunks(_, _, _, _, _, _)
add_chunks(st, n, file_path, chunks, embeddings, i) ==
    IF i >= Min(Len(chunks), Len(embeddings)) THEN {[res |-> "Ok", st |-> st, uuids |-> n]}
    ELSE LET chunk_filename == file_path \o <<"#", "chunk">> \o to_string(i + 1) IN
         UNION {IF r.res = "Ok"
                THEN add_chunks(r.st, r.uuids, file_path, chunks, embeddings, i + 1)
                ELSE {[res |-> r.res, st |-> r.st, uuids |-> r.uuids]} :
                   r \in add_run(st, n, embeddings[i + 1], chunks[i + 1], chunk_filename)}

\* The loop over files from position f: a missing file is skipped; a
\* failure to read, to embed or to add ends the command.
RECURSIVE add_files(_, _, _, _)
add_files(st, n, files, f) ==
    IF f > Len(files) THEN {[res |-> "Ok", st |-> st, uuids |-> n]}
    ELSE IF ~path_exists(files[f]) THEN add_files(st, n, files, f + 1)
    ELSE UNION {
           IF ~rd.ok THEN {[res |-> "Err", st |-> st, uuids |-> n]}
           ELSE UNION {
                  IF ~em.ok THEN {[res |-> "Err", st |-> st, uuids |-> n]}
                  ELSE UNION {IF r.res = "Ok" THEN add_files(r.st, r.uuids, files, f + 1)
                              ELSE {r} :
                                 r \in add_chunks(st, n, files[f], chunk(rd.content),
                                                  em.tensors, 0)} :
                  em \in embed(rd.content)} :
           rd \in read_to_string(files[f])}

\* the paths of files that exist and give at least one chunk
paths_added(files) ==
    {files[f] : f \in {g \in 1..Len(files) :
                          path_exists(files[g]) /\ chunk(Disk[files[g]]) # <<>>}}

\* (mutant) the store is written whether or not the path exists
create_vector_store_overwrite(M) ==
    /\ \E io \in save_run(new(M), file) :
         /\ file' = io.file
         /\ outcome' = CliOutcome("create", io.res)
    /\ UNCHANGED <<store_vars, uuids, added, embed_vars>>

\* create_vector_store(db_path, max_connections): a notice when the path
\* exists; otherwise a new store is saved.
create_vector_store(M) ==
    IF file.kind # "absent"
    THEN /\ outcome' = CliOutcome("create", "Ok")
         /\ UNCHANGED <<store_vars, file, uuids, added, embed_vars>>
    ELSE /\ \E io \in save_run(new(M), file) :
              /\ file' = io.file
              /\ outcome' = CliOutcome("create", io.res)
         /\ UNCHANGED <<store_vars, uuids, added, embed_vars>>

\* (mutant) the store is saved also when a file has failed
add_documents_save_partial(files) ==
    IF file.kind # "absent" /\ ~deserialize_ok(file)
    THEN /\ outcome' = [CliOutcome("add", "Err") EXCEPT !.step = "load"]
         /\ UNCHANGED <<store_vars, file, uuids, added, embed_vars>>
    ELSE \E embeddor_ok \in BOOLEAN :
         IF ~embeddor_ok
         THEN /\ outcome' = [CliOutcome("add", "Err") EXCEPT !.step = "embeddor"]
              /\ UNCHANGED <<store_vars, file, uuids, added, embed_vars>>
         ELSE \E r \in UNION {add_files(store, uuids, files, 1) :
                                 store \in (IF file.kind # "absent" THEN load_run(file)
                                            ELSE {new(DEFAULT_CONNECTIONS)})} :
                IF r.res # "Ok"
                THEN /\ outcome' = [CliOutcome("add", r.res) EXCEPT
                                        !.step = "files", !.inserted = r.uuids - uuids]
                     /\ file' \in {io.file : io \in save_run(r.st, file)}
                     /\ UNCHANGED <<store_vars, uuids, added, embed_vars>>
                ELSE \E io \in save_run(r.st, file) :
                       /\ file' = io.file
                       /\ outcome' = [CliOutcome("add", io.res) EXCEPT
                                          !.step = "save", !.inserted = r.uuids - uuids]
                       /\ uuids' = IF io.res = "Ok" THEN r.uuids ELSE uuids
                       /\ added' = IF io.res = "Ok"
                                   THEN [chunks |-> added.chunks + (r.uuids - uuids),
                                         paths |-> added.paths \cup paths_added(files)]
                                   ELSE added
                       /\ UNCHANGED <<store_vars, embed_vars>>

\* add_documents(db_path, files): the store is loaded, or made with the
\* default M when there is no file; the embedder is made; the files are
\* added; and only then the store is saved.
add_documents(files) ==
    IF file.kind # "absent" /\ ~deserialize_ok(file)
    THEN /\ outcome' = [CliOutcome("add", "Err") EXCEPT !.step = "load"]
         /\ UNCHANGED <<store_vars, file, uuids, added, embed_vars>>
    ELSE \E embeddor_ok \in BOOLEAN :
         IF ~embeddor_ok
         THEN /\ outcome' = [CliOutcome("add", "Err") EXCEPT !.step = "embeddor"]
              /\ UNCHANGED <<store_vars, file, uuids, added, embed_vars>>
         ELSE \E r \in UNION {add_files(store, uuids, files, 1) :
                                 store \in (IF file.kind # "absent" THEN load_run(file)
                                            ELSE {new(DEFAULT_CONNECTIONS)})} :
                IF r.res # "Ok"
                THEN /\ outcome' = [CliOutcome("add", r.res) EXCEPT
                                        !.step = "files", !.inserted = r.uuids - uuids]
                     /\ UNCHANGED <<store_vars, file, uuids, added, embed_vars>>
                ELSE \E io \in save_run(r.st, file) :
                       /\ file' = io.file
                       /\ outcome' = [CliOutcome("add", io.res) EXCEPT
                                          !.step = "save", !.inserted = r.uuids - uuids]
                       /\ uuids' = IF io.res = "Ok" THEN r.uuids ELSE uuids
                       /\ added' = IF io.res = "Ok"
                                   THEN [chunks |-> added.chunks + (r.uuids - uuids),
                                         paths |-> added.paths \cup paths_added(files)]
                                   ELSE added
                       /\ UNCHANGED <<store_vars, embed_vars>>

\* the base filenames show_info collects from the filenames of all ids
unique_files(store) ==
    {split_next(get_embedding(store, id)[2], 1) :
        id \in {i \in get_all_ids(store) :
                   get_embedding(store, i) # <<>> /\ get_embedding(store, i)[2] # NoFile}}

\* show_info(db_path): without a file a notice; otherwise the store is
\* loaded and its text_count(self) and the number of base filenames are printed.
show_info ==
    IF file.kind = "absent"
    THEN /\ outcome' = CliOutcome("info", "Ok")
         /\ UNCHANGED <<store_vars, file, uuids, added, embed_vars>>
    ELSE IF ~deserialize_ok(file)
    THEN /\ outcome' = CliOutcome("info", "Err")
         /\ UNCHANGED <<store_vars, file, uuids, added, embed_vars>>
    ELSE /\ outcome' \in {[CliOutcome("info", "Ok") EXCEPT
                               !.count = text_count(store),
                               !.source_files = Cardinality(unique_files(store))] :
                             store \in load_run(file)}
         /\ UNCHANGED <<store_vars, file, uuids, added, embed_vars>>

\* ------------------------------------------------------------------ inputs
\* The payload never influences the graph, so each vector comes with one
\* payload; the add without a filename is VectorStore::add.
Inputs == {
    [tensor |-> [rank |-> 1, data |-> <<1, 0>>], text |-> "alpha", filename |-> NoFile],
    [tensor |-> [rank |-> 1, data |-> <<4, 3>>], text |-> "beta",  filename |-> <<"a.txt", "#", "chunk", "1">>],
    [tensor |-> [rank |-> 1, data |-> <<0, 0>>], text |-> "zero",  filename |-> <<"b.txt", "#", "chunk", "1">>],
    [tensor |-> [rank |-> 2, data |-> <<1, 0>>], text |-> "bad",   filename |-> NoFile] }

\* the same with a vector of another length
MixedInputs == Inputs \cup {
    [tensor |-> [rank |-> 1, data |-> <<1, 0, 0>>], text |-> "long", filename |-> <<"b.txt", "#", "chunk", "2">>] }

\* the query vectors: those of Inputs and a third direction
Queries == {in.tensor : in \in Inputs} \cup {[rank |-> 1, data |-> <<0, 1>>]}

\* Spec grows a store by adds.  SpecQuery grows a smaller store and ends
\* with one query: query takes &self and changes no field, so a query
\* between two adds would not change what follows it.  SpecPersist adds,
\* saves, loads, and lets the environment corrupt the file.  SpecMixed adds
\* vectors of two lengths.
Add == \E in \in Inputs :
          uuids < MaxNodes /\ add_with_filename(in.tensor, in.text, in.filename)
AddQ == \E in \in Inputs :
          /\ uuids < MaxQueryNodes
          /\ outcome.op # "query"
          /\ add_with_filename(in.tensor, in.text, in.filename)
AddP == \E in \in Inputs :
          uuids < MaxSavedNodes /\ add_with_filename(in.tensor, in.text, in.filename)
AddMixed == \E in \in MixedInputs :
          uuids < MaxMixedNodes /\ add_with_filename(in.tensor, in.text, in.filename)
Query == \E t \in Queries, k \in 0..MaxK : outcome.op # "query" /\ query(t, k)
Save == save
Load == load
Corrupt == \E l \in 1..(MaxLevel + 1), i \in 1..MaxSavedNodes, x \in 1..(MaxSavedNodes + 1) :
              corrupt_file(l, i, x)


\* SpecCli runs the commands create, add and info on one database path.
\* Each command is a process of its own: its store is made or loaded by
\* the command and gone at its end, so the store variables stay as they
\* are, a command that fails ends only itself, and the Uuids of a command
\* that wrote nothing are in no store and are not counted.
CreateArgs == Connections \cup {DEFAULT_CONNECTIONS}
FileArgs == {
    << <<"a.txt">> >>,
    << <<"notes", "#", "1.txt">> >>,
    << <<"notes", "#", "2.txt">>, <<"gone.txt">> >>,
    << <<"b.txt">>, <<"empty.txt">> >> }

RECURSIVE chunks_of(_, _)
chunks_of(files, f) ==
    IF f > Len(files) THEN 0
    ELSE (IF path_exists(files[f]) THEN Len(chunk(Disk[files[f]])) ELSE 0) + chunks_of(files, f + 1)

InitCli ==
    /\ layers = new(DEFAULT_CONNECTIONS).layers
    /\ texts = EmptyMap
    /\ filenames = EmptyMap
    /\ max_connections = DEFAULT_CONNECTIONS
    /\ m_l = m_l_of(DEFAULT_CONNECTIONS)
    /\ file = Absent
    /\ uuids = 0
    /\ outcome = NoOutcome
    /\ added = NoneAdded
    /\ EmbedIdle

CliCreate == \E M \in CreateArgs : create_vector_store(M)
CliAdd == \E files \in FileArgs :
            uuids + chunks_of(files, 1) <= MaxCliNodes /\ add_documents(files)
CliInfo == show_info

Next == Add
NextQuery == AddQ \/ Query
NextPersist == AddP \/ Save \/ Load \/ Corrupt
NextMixed == AddMixed
NextCli == CliCreate \/ CliAdd \/ CliInfo

Spec == Init /\ [][Next]_vars
SpecQuery == Init /\ [][NextQuery]_vars
SpecPersist == Init /\ [][NextPersist]_vars
SpecMixed == Init /\ [][NextMixed]_vars
SpecCli == InitCli /\ [][NextCli]_vars

\* SpecChunk calls chunk on every text of at most MaxPieces pieces in
\* which words are apart: words of 100, 200, 311 and 513 bytes, so that
\* two words make 512 bytes and three make 513.  SpecEmbed calls embed on
\* texts of at most MaxEmbedChunks words of 513 bytes, a chunk each, of
\* which at most one, at any place, has the other embedding; it
\* runs the caller and the workers in every order; FairEmbed adds that a
\* thread that can take a step takes it in the end, which the scheduler
\* of the operating system gives to the caller and to each spawned thread.
ChunkWords == {Piece("a", 100), Piece("lorem", 200), Piece("ipsum", 311), Piece("dolor", 513)}
Spaces == {Piece(w, 1) : w \in Whitespace}
SeqsUpTo(S, n) == UNION {[1..m -> S] : m \in 0..n}
Texts == {t \in SeqsUpTo(ChunkWords \cup Spaces, MaxPieces) :
            \A i \in 1..(Len(t) - 1) : t[i] \in Spaces \/ t[i + 1] \in Spaces}
Spaced(words) ==
    [i \in 1..(2 * Len(words) - 1) |-> IF i % 2 = 1 THEN words[(i + 1) \div 2] ELSE Piece(" ", 1)]
EmbedTexts ==
    {<<>>} \cup {Spaced([i \in 1..n |-> IF i = at THEN Piece("lorem", 513)
                                                    ELSE Piece("ipsum", 513)]) :
                    n \in 1..MaxEmbedChunks, at \in 1..MaxEmbedChunks}

InitEmbedder(texts_given) ==
    /\ layers = new(DEFAULT_CONNECTIONS).layers
    /\ texts = EmptyMap
    /\ filenames = EmptyMap
    /\ max_connections = DEFAULT_CONNECTIONS
    /\ m_l = m_l_of(DEFAULT_CONNECTIONS)
    /\ file = Absent
    /\ uuids = 0
    /\ outcome = NoOutcome
    /\ added = NoneAdded
    /\ embed_text \in texts_given
    /\ embed_chunks = <<>>
    /\ pc = "call"
    /\ chunk_batches = <<>>
    /\ threads = <<>>
    /\ channel = <<>>
    /\ ordered_results = <<>>
    /\ result = NoResult

InitChunk == InitEmbedder(Texts)
InitEmbed == InitEmbedder(EmbedTexts)

ChunkCall == chunk_call
EmbedStart == embed_start
Spawn == spawn
DropSender == drop_sender
WorkerSend == \E t \in 1..ThreadCap : worker_send(t)
WorkerExit == \E t \in 1..ThreadCap : worker_exit(t)
Receive == receive
EmbedFinish == embed_finish

NextChunk == ChunkCall
NextEmbed == EmbedStart \/ Spawn \/ DropSender \/ WorkerSend \/ WorkerExit \/ Receive
                \/ EmbedFinish

SpecChunk == InitChunk /\ [][NextChunk]_vars
SpecEmbed == InitEmbed /\ [][NextEmbed]_vars
FairEmbed ==
    /\ SpecEmbed
    /\ WF_vars(Spawn \/ DropSender \/ Receive \/ EmbedFinish)
    /\ \A t \in 1..ThreadCap : WF_vars(worker_send(t) \/ worker_exit(t))

\* ------------------------------------------------------------------ claims
Levels == 1..Len(layers)
Positions(l) == 1..Len(layers[l].nodes)
IdAt(l, i) == layers[l].nodes[i].id
Nbrs(l, i) == Range(layers[l].nodes[i].neighbors)
TensorOf(v) == [rank |-> 1, data |-> v]
FilenameOf(id) == IF id \in DOMAIN filenames THEN filenames[id] ELSE NoFile
\* count()
Count == text_count(self)

\* C1: after any sequence of adds, every node at every layer has at most
\* max_connections ids in its neighbor set.
C1_DegreeCap ==
    \A l \in Levels : \A i \in Positions(l) :
        /\ Len(layers[l].nodes[i].neighbors) <= max_connections
        /\ Cardinality(Nbrs(l, i)) = Len(layers[l].nodes[i].neighbors)

\* C1 witness: the last add linked its node to a node that was at the cap,
\* which therefore did not take the link back.
C1_CapRefusedLink ==
    /\ outcome.op = "add" /\ outcome.res = "Ok" /\ max_connections >= 2
    /\ \E l \in Levels : \E i, j \in Positions(l) :
          /\ IdAt(l, j) = outcome.id
          /\ IdAt(l, i) \in Nbrs(l, j)
          /\ outcome.id \notin Nbrs(l, i)
          /\ Cardinality(Nbrs(l, i)) = max_connections

\* C2 (as claimed): every edge is symmetric within its layer.
C2_Symmetric ==
    \A l \in Levels : \A i, j \in Positions(l) :
        IdAt(l, j) \in Nbrs(l, i) <=> IdAt(l, i) \in Nbrs(l, j)

\* C2 (amended): an edge from a to b lacks its reverse only when b's
\* neighbor set holds max_connections ids.
C2_SymmetricUnlessCapped ==
    \A l \in Levels : \A i, j \in Positions(l) :
        (IdAt(l, j) \in Nbrs(l, i) /\ IdAt(l, i) \notin Nbrs(l, j))
            => Cardinality(Nbrs(l, j)) = max_connections

\* C2 witness: a one-sided edge exists.
C2_OneSidedEdge ==
    \E l \in Levels : \E i, j \in Positions(l) :
        IdAt(l, j) \in Nbrs(l, i) /\ IdAt(l, i) \notin Nbrs(l, j)

\* the result r of a query is the one entry of the node id
IsEntryOf(r, id) ==
    /\ r.res = "Ok"
    /\ Len(r.rows) = 1
    /\ r.rows[1][1] = texts[id]
    /\ r.rows[1][3] = FilenameOf(id)

\* C3 (as claimed): for an inserted vector v distinct from every other
\* inserted vector, query(v, 1) returns the entry of the node inserted
\* with v, after any further adds.
C3_SelfRecall ==
    alive =>
      \A i \in Positions(1) :
        (\A j \in Positions(1) : j # i => layers[1].nodes[j].vector # layers[1].nodes[i].vector)
          => IsEntryOf(query_run(layers, texts, filenames,
                                 TensorOf(layers[1].nodes[i].vector), 1), IdAt(1, i))

\* C4 (as claimed): an add of a vector whose length differs from that of
\* the first inserted vector fails and leaves the store unchanged.
C4_DimensionMismatchRejected ==
    [][(/\ outcome'.op = "add"
        /\ uuids' # uuids
        /\ layers[1].nodes # <<>>
        /\ Len(outcome'.q.data) # Len(layers[1].nodes[1].vector))
       => (outcome'.res = "Err" /\ store_vars' = store_vars)]_vars

\* C5 (as claimed): a save that fails leaves the file with the content it
\* had before the save.
C5_FailedSaveKeepsFile ==
    [][(outcome'.op = "save" /\ outcome'.res = "Err") => file' = file]_vars

\* C6 (as claimed): load of a file in which a neighbor set names an id that
\* is not a node of its layer fails and yields no store.
C6_LoadRejectsDangling ==
    [][(outcome'.op = "load" /\ file' = file /\ file.kind = "json" /\ dangling(file.doc)
        /\ (outcome.op # "load" \/ store_vars' # store_vars))
       => (outcome'.res = "Err" /\ store_vars' = store_vars)]_vars

\* two stores are the same up to the iteration order of the neighbor sets
SameLayers(ls1, ls2) ==
    /\ Len(ls1) = Len(ls2)
    /\ \A l \in 1..Len(ls1) :
          /\ Len(ls1[l].nodes) = Len(ls2[l].nodes)
          /\ ls1[l].id_to_index = ls2[l].id_to_index
          /\ \A i \in 1..Len(ls1[l].nodes) :
                /\ ls1[l].nodes[i].id = ls2[l].nodes[i].id
                /\ ls1[l].nodes[i].vector = ls2[l].nodes[i].vector
                /\ Range(ls1[l].nodes[i].neighbors) = Range(ls2[l].nodes[i].neighbors)

\* C7 (as claimed): a load of the file that save wrote from the store S
\* succeeds and gives the layers, nodes, vectors, neighbor sets, texts,
\* sources and parameters of S.
C7_RoundTrip ==
    [][(/\ outcome.op = "save" /\ outcome.res = "Ok"
        /\ outcome'.op = "load"
        /\ file = [kind |-> "json",
                   doc |-> serialize(layers, texts, filenames, max_connections, m_l)])
       => (/\ outcome'.res = "Ok"
           /\ SameLayers(layers', layers)
           /\ texts' = texts /\ filenames' = filenames
           /\ max_connections' = max_connections /\ m_l' = m_l)]_vars

\* C8 (as claimed): a query with k larger than the number of inserted
\* nodes returns exactly one entry per inserted node.
C8_AllNodesReturned ==
    (outcome.op = "query" /\ outcome.res = "Ok" /\ outcome.k > Count)
        => /\ Len(outcome.rows) = Count
           /\ {outcome.nearest[i][1] : i \in 1..Len(outcome.nearest)} = DOMAIN texts

\* the nodes and the rows of r1 are among those of r2
RowsWithin(r1, r2) ==
    /\ r1.res = r2.res
    /\ Range(r1.nearest) \subseteq Range(r2.nearest)
    /\ Range(r1.rows) \subseteq Range(r2.rows)

\* C9: for every store, query vector and k1 <= k2, the entries query(q, k1)
\* returns are among those query(q, k2) returns.  Every store is queried
\* with every k in 0..MaxK, so it is stated for k2 = k1 + 1: inclusion is
\* transitive.
C9_MonotoneInK ==
    (outcome.op = "query" /\ outcome.k < MaxK) =>
        \A r2 \in {query_run(layers, texts, filenames, outcome.q, outcome.k + 1)} :
            RowsWithin(outcome, r2)

\* C9 witness: a query with k = 1 returned one entry and the same query
\* with k = 2 returns that entry and another one.
C9_StrictlyMore ==
    /\ outcome.op = "query" /\ outcome.res = "Ok" /\ outcome.k = 1
    /\ Len(outcome.rows) = 1
    /\ Len(query_run(layers, texts, filenames, outcome.q, 2).rows) = 2

\* C10 (as claimed): a zero vector is accepted, its distance to any vector
\* is 1, and no later add or query panics.
C10_ZeroVectorSafe ==
    /\ \A i \in Positions(1) : \A in \in Inputs :
          sum_sq_from(layers[1].nodes[i].vector, 1) = 0
             => cosine_distance(layers[1].nodes[i].vector, in.tensor.data) = One
    /\ outcome.res # "panic"

\* the layers of the stores that load gives from the file that save writes
\* from the present store: the same nodes and neighbor sets, the sets in
\* any iteration order
ReloadedLayers ==
    LET f == [kind |-> "json", doc |-> serialize(layers, texts, filenames, max_connections, m_l)]
    IN  IF deserialize_ok(f) THEN read_layers(f.doc.layers, 1) ELSE {}

\* the vector of the node id of layer 0
VectorOf(id) == layers[1].nodes[layers[1].id_to_index[id]].vector

\* C11 (as claimed): among the results of a query that are at the same
\* distance, the node inserted earlier comes first.
C11_TiesInInsertionOrder ==
    (outcome.op = "query" /\ outcome.res = "Ok") =>
        \A i, j \in 1..Len(outcome.nearest) :
            (i < j /\ outcome.nearest[i][2] = outcome.nearest[j][2])
                => outcome.nearest[i][1] < outcome.nearest[j][1]

\* C12 (as claimed): the result list of a query does not depend on the
\* iteration order of the neighbor sets, and is the same after a save and
\* load of the store.
C12_SameResultsAfterReload ==
    outcome.op = "query" =>
        \A ls2 \in ReloadedLayers :
            LET r == query_run(ls2, texts, filenames, outcome.q, outcome.k)
            IN  r.res = outcome.res /\ r.nearest = outcome.nearest /\ r.rows = outcome.rows

\* C13: the list a query returns is in ascending order of distance (its
\* similarities do not increase), and no node the search visited is closer
\* to the query than the first entry.
C13_AscendingDistance ==
    (outcome.op = "query" /\ outcome.res = "Ok") =>
        LET near == outcome.nearest
        IN  /\ \A i, j \in 1..Len(near) :
                  i < j => /\ partial_cmp(near[j][2], near[i][2]) # "Less"
                           /\ outcome.rows[j][2] <= outcome.rows[i][2]
            /\ \A id \in outcome.visited :
                  near # <<>> =>
                      partial_cmp(cosine_distance(outcome.q.data, VectorOf(id)), near[1][2]) # "Less"

\* C13 witness: a query returned two entries at different distances after
\* visiting more nodes than it returned.
C13_TwoDistances ==
    /\ outcome.op = "query" /\ outcome.res = "Ok"
    /\ Len(outcome.nearest) = 2
    /\ outcome.nearest[1][2] < outcome.nearest[2][2]
    /\ Cardinality(outcome.visited) > 2

\* C14: a query with a vector on a store without nodes, fresh or saved and
\* reloaded, returns Ok with an empty list.
C14_EmptyStoreQuery ==
    (/\ outcome.op = "query" /\ outcome.q.rank = 1
     /\ \A l \in Levels : layers[l].nodes = <<>>)
        => /\ outcome.res = "Ok" /\ outcome.rows = <<>>
           /\ \A ls2 \in ReloadedLayers :
                 LET r == query_run(ls2, texts, filenames, outcome.q, outcome.k)
                 IN  r.res = "Ok" /\ r.nearest = <<>> /\ r.rows = <<>>

\* C14 witness: a store without nodes, which can be saved and reloaded,
\* was queried with k >= 1.
C14_EmptyQueried ==
    /\ outcome.op = "query" /\ outcome.q.rank = 1 /\ outcome.k >= 1
    /\ \A l \in Levels : layers[l].nodes = <<>>
    /\ ReloadedLayers # {}
    /\ outcome.rows = <<>>

\* C15: a node of a layer above layer 0 is a node of the layer below it,
\* layer 0 holds every node that has a text, and no layer below a
\* non-empty layer is empty.
C15_LayerMonotone ==
    /\ \A l \in Levels : l > 1 => layer_ids(layers[l]) \subseteq layer_ids(layers[l - 1])
    /\ get_all_ids(self) \subseteq layer_ids(layers[1])
    /\ \A l \in Levels : (l > 1 /\ layers[l].nodes # <<>>) => layers[l - 1].nodes # <<>>

\* C15 witness: a node was added to layers 0 and 1 of a store whose layer
\* 0 holds a node that layer 1 does not.
C15_NodeOnTwoLayers ==
    /\ outcome.op = "add" /\ outcome.res = "Ok"
    /\ Len(layers) >= 2
    /\ outcome.id \in layer_ids(layers[2])
    /\ layer_ids(layers[1]) # layer_ids(layers[2])

\* C16: every id of a neighbor set is the id of a node of the same layer,
\* and id_to_index maps exactly the ids of the layer, each to the position
\* of its node.
C16_EdgeLocality ==
    \A l \in Levels :
        /\ DOMAIN layers[l].id_to_index = layer_ids(layers[l])
        /\ \A i \in Positions(l) :
              /\ Nbrs(l, i) \subseteq layer_ids(layers[l])
              /\ layers[l].id_to_index[IdAt(l, i)] = i

\* C16 witness: two nodes of layer 1 are linked, and layer 0 holds a node
\* that is not on layer 1.
C16_EdgeAboveLayer0 ==
    /\ Len(layers) >= 2
    /\ \E i \in Positions(2) : Nbrs(2, i) # {}
    /\ layer_ids(layers[1]) # layer_ids(layers[2])

\* C17: no node has its own id in its neighbor set.
C17_NoSelfLoop ==
    \A l \in Levels : \A i \in Positions(l) : IdAt(l, i) \notin Nbrs(l, i)

\* C17 witness: the last add pushed its node into a layer that held nodes,
\* searched that layer and linked the node.
C17_SearchedAfterPush ==
    /\ outcome.op = "add" /\ outcome.res = "Ok"
    /\ \E l \in Levels : \E i \in Positions(l) :
          IdAt(l, i) = outcome.id /\ i > 1 /\ Nbrs(l, i) # {}

\* C18: after n successful adds, the ids that have a text are the ids of
\* the nodes of layer 0, count() is n, and get_embedding of an id gives the
\* text and the filename of the add that made the node.
C18_PayloadPerNode ==
    alive =>
        /\ get_all_ids(self) = layer_ids(layers[1])
        /\ text_count(self) = uuids
        /\ \A i \in Positions(1) :
              \E in \in Inputs :
                  /\ in.tensor = TensorOf(layers[1].nodes[i].vector)
                  /\ get_embedding(self, IdAt(1, i)) = <<in.text, in.filename>>

\* C18 witness: three adds succeeded, one without and one with a filename.
C18_ThreeAdds ==
    /\ alive /\ text_count(self) = 3
    /\ \E id \in get_all_ids(self) : get_embedding(self, id)[2] = NoFile
    /\ \E id \in get_all_ids(self) : get_embedding(self, id)[2] # NoFile

\* the file holds an empty store made with M
IsEmptyStoreFile(f, M) ==
    /\ f.kind = "json"
    /\ f.doc = serialize(<<EmptyLayer>>, EmptyMap, EmptyMap, M, m_l_of(M))

\* C19: the create command on a path that exists leaves the file as it is
\* and exits successfully; a create that changes the file found no file at
\* the path, and what it writes when it succeeds is an empty store.
C19_CreateKeepsExisting ==
    [][outcome'.op = "create" =>
          /\ (file.kind # "absent" => file' = file /\ outcome'.res = "Ok")
          /\ (file' # file => file.kind = "absent")
          /\ (file.kind = "absent" /\ outcome'.res = "Ok" =>
                 \E M \in CreateArgs : IsEmptyStoreFile(file', M))]_vars

\* create has run on a path that held a store with chunks
C19_ExistingKept ==
    /\ outcome.op = "create" /\ outcome.res = "Ok"
    /\ file.kind = "json" /\ file.doc.texts # EmptyMap

\* C20: when info runs on the store the add commands have saved, the
\* count it reports is the number of chunks the successful add commands
\* inserted, and its number of source files is the number of distinct file
\* paths they added.
C20_InfoCountsChunksAndPaths ==
    (outcome.op = "info" /\ outcome.res = "Ok" /\ file.kind = "json")
        => /\ outcome.count = added.chunks
           /\ outcome.source_files = Cardinality(added.paths)

\* the layers above layer 0, as a stack of their own
UpperLayers == SubSeq(layers, 2, Len(layers))

\* what the descent of query finds at layer 1 for q
FoundAtLayer1(q) ==
    entry_point_from(UpperLayers, q, Len(UpperLayers) - 1, <<0, NaN>>)

\* C22: the search of layer 0 starts from the node the descent found at
\* layer 1, so that node is among the nodes the search of layer 0 visits.
C22_Layer0StartsAtFound ==
    \A t \in Queries : \A k \in 0..MaxK :
        (/\ alive
         /\ Len(layers) >= 2 /\ layers[2].nodes # <<>>
         /\ query_run(layers, texts, filenames, t, k).res = "Ok")
            => FoundAtLayer1(t.data)[1] \in find_nearest_run(layers[1], t.data, k).visited

\* the layer l as it was before the step (a layer the step made was empty)
LayerBefore(l) == IF l <= Len(layers) THEN layers[l] ELSE EmptyLayer

\* a layer with the node (id, vector) pushed and not yet linked
Pushed(layer, id, vector) ==
    [nodes |-> Append(layer.nodes, [id |-> id, vector |-> vector, neighbors |-> <<>>]),
     id_to_index |-> (id :> (Len(layer.nodes) + 1)) @@ layer.id_to_index]

\* the neighbors the node id has in layer after the step
NeighborsAfter(layer, id) == layer.nodes[layer.id_to_index[id]].neighbors

\* C23: after an add that returns Ok on a store with M >= 1, the new node
\* has, at every layer it is on, no neighbor when the layer was empty and
\* otherwise exactly one: the node the search with k = 1 of that layer
\* returns for the new vector.
C23_LinkedToNearest ==
    [][(outcome'.op = "add" /\ outcome'.res = "Ok" /\ max_connections >= 1) =>
          \A l \in 1..Len(layers') :
              outcome'.id \in DOMAIN layers'[l].id_to_index =>
                  IF LayerBefore(l).nodes = <<>>
                  THEN NeighborsAfter(layers'[l], outcome'.id) = <<>>
                  ELSE NeighborsAfter(layers'[l], outcome'.id) =
                          <<find_nearest_run(Pushed(LayerBefore(l), outcome'.id, outcome'.q.data),
                                             outcome'.q.data, 1).best[1][1]>>]_vars

\* the last add put its node on layers 0 and 1 and linked it on both
C23_LinkedOnTwoLayers ==
    /\ outcome.op = "add" /\ outcome.res = "Ok" /\ Len(layers) >= 2
    /\ outcome.id \in DOMAIN layers[2].id_to_index
    /\ Len(NeighborsAfter(layers[1], outcome.id)) = 1
    /\ Len(NeighborsAfter(layers[2], outcome.id)) = 1

\* the positions of layer l whose neighbor set the step changed
Relinked(l) ==
    {i \in Positions(l) : Range(layers'[l].nodes[i].neighbors) # Nbrs(l, i)}

\* C24: an add leaves every node that was there in place with its id and
\* vector, leaves every text and filename that was there, removes no
\* neighbor, and adds to the neighbor sets of the nodes that were there
\* nothing but the id of the new node, to at most one node per layer.
C24_AddFrame ==
    [][outcome'.op = "add" =>
          /\ Len(layers') >= Len(layers)
          /\ \A l \in Levels :
                /\ Len(layers'[l].nodes) >= Len(layers[l].nodes)
                /\ \A i \in Positions(l) :
                      /\ layers'[l].nodes[i].id = IdAt(l, i)
                      /\ layers'[l].nodes[i].vector = layers[l].nodes[i].vector
                      /\ layers'[l].id_to_index[IdAt(l, i)] = layers[l].id_to_index[IdAt(l, i)]
                      /\ Nbrs(l, i) \subseteq Range(layers'[l].nodes[i].neighbors)
                      /\ Range(layers'[l].nodes[i].neighbors) \ Nbrs(l, i) \subseteq {uuids'}
                /\ Cardinality(Relinked(l)) <= 1
          /\ \A id \in DOMAIN texts : id \in DOMAIN texts' /\ texts'[id] = texts[id]
          /\ \A id \in DOMAIN filenames :
                id \in DOMAIN filenames' /\ filenames'[id] = filenames[id]
          /\ DOMAIN filenames' \ DOMAIN filenames \subseteq {uuids'}]_vars

\* the last add gave its id to a node that already had a neighbor
C24_GainedSecondNeighbor ==
    /\ outcome.op = "add" /\ outcome.res = "Ok"
    /\ \E i \in Positions(1) :
          /\ IdAt(1, i) # outcome.id
          /\ outcome.id \in Nbrs(1, i)
          /\ Cardinality(Nbrs(1, i)) >= 2

\* A search that made these passes and visited these nodes in a layer
\* visited only nodes of the layer, a new one in every pass but the last,
\* and so made no more passes than the layer has nodes, plus one.
BoundedSearch(layer, passes, visited) ==
    /\ visited \subseteq layer_ids(layer)
    /\ passes <= Cardinality(visited)
    /\ passes <= Len(layer.nodes) + 1

\* C25: find_nearest ends on every layer the adds have built, for every
\* query vector and k: each pass of its loop but the last visits a node
\* not visited before, so it makes at most one pass more than the layer
\* has nodes.
C25_SearchTerminates ==
    (outcome.op = "query" /\ outcome.res # "Err") =>
        /\ BoundedSearch(layers[1], outcome.passes, outcome.visited)
        /\ \A l \in 2..Len(layers) :
              \A run \in {find_nearest_run(layers[l], outcome.q.data, outcome.k)} :
                  BoundedSearch(layers[l], run.passes, run.visited)

\* a search ended after three passes, each of the first two having visited
\* a new node
C25_ThreePasses ==
    /\ outcome.op = "query" /\ outcome.res = "Ok"
    /\ outcome.passes = 3 /\ Cardinality(outcome.visited) = 3

\* C26: a query that returns Ok returns at most k entries, and so none
\* for k = 0.
C26_AtMostK ==
    (outcome.op = "query" /\ outcome.res = "Ok") => Len(outcome.rows) <= outcome.k

\* C28: an add command that ends with an error while it processes the
\* files (a read, an embedding or an insertion fails) leaves the store
\* file as it was, whatever it had inserted in memory.
C28_FailedAddKeepsFile ==
    [][(outcome'.op = "add" /\ outcome'.res # "Ok" /\ outcome'.step = "files")
          => file' = file]_vars

\* an add command on a saved store failed on a later file after it had
\* inserted the chunk of an earlier one
C28_FailedAfterInsert ==
    /\ outcome.op = "add" /\ outcome.res = "Err" /\ outcome.step = "files"
    /\ outcome.inserted >= 1
    /\ file.kind = "json" /\ file.doc.texts # EmptyMap

\* the bytes of a String given by its pieces
ByteLenOf(w) == (CHOOSE p \in ChunkWords \cup Spaces : p.w = w).len
RECURSIVE ByteLen(_)
ByteLen(s) == IF s = <<>> THEN 0 ELSE ByteLenOf(Head(s)) + ByteLen(Tail(s))

\* the Strings of a list joined with single spaces
RECURSIVE Joined(_)
Joined(strings) ==
    IF strings = <<>> THEN <<>>
    ELSE IF Len(strings) = 1 THEN strings[1]
    ELSE strings[1] \o <<" ">> \o Joined(Tail(strings))

\* the words of a text: its pieces that are not whitespace, in order
WordsOf(t) == [i \in 1..Len(split_whitespace(t)) |-> <<split_whitespace(t)[i].w>>]

\* C21: chunk returns non-empty chunks, each of at most 512 bytes unless
\* it is a single word, and the chunks joined with single spaces are the
\* words of the text in order, none lost and none twice.
C21_ChunkPacksWords ==
    pc = "chunked" =>
        /\ \A i \in 1..Len(embed_chunks) :
              /\ embed_chunks[i].text # <<>>
              /\ embed_chunks[i].len = ByteLen(embed_chunks[i].text)
              /\ ByteLen(embed_chunks[i].text) <= ChunkBytes \/ Len(embed_chunks[i].text) = 1
        /\ Joined([i \in 1..Len(embed_chunks) |-> embed_chunks[i].text])
              = Joined(WordsOf(embed_text))

\* chunk has packed two words into a chunk of 512 bytes and has given a
\* word of 513 bytes a chunk of its own
C21_FullChunkAndLongWord ==
    /\ pc = "chunked"
    /\ Len(embed_chunks) = 2
    /\ Len(embed_chunks[1].text) = 3 /\ embed_chunks[1].len = ChunkBytes
    /\ Len(embed_chunks[2].text) = 1 /\ embed_chunks[2].len > ChunkBytes

\* what embed has to return for the chunks when no worker fails
ExpectedTensors ==
    [i \in 1..Len(embed_chunks) |-> [rank |-> 1, data |-> encode(embed_chunks[i])]]
WorkersSpawned == pc \in {"spawn", "collect"} /\ Len(threads) = Len(chunk_batches)
AllSent == WorkersSpawned /\ \A t \in 1..Len(threads) : threads[t].pc # "run"

\* C27: when embed has split the chunks over workers, whatever the order
\* of their steps, it returns an error if a worker reported one and
\* otherwise one tensor per chunk, the i-th for the i-th chunk; and once
\* every worker has sent its result the call returns.
C27_EmbedInChunkOrder ==
    /\ [](pc = "returned" /\ threads # <<>> =>
            IF \E t \in 1..Len(threads) : ~threads[t].ok
            THEN result = NoResult
            ELSE result.ok /\ result.tensors = ExpectedTensors)
    /\ (AllSent ~> pc = "returned")

\* embed has returned the tensors of five chunks, of which two differ,
\* from three workers whose results arrived in another order than sent
C27_ArrivedOutOfOrder ==
    /\ pc = "returned" /\ result.ok
    /\ Len(embed_chunks) = 5 /\ Len(threads) = 3
    /\ ordered_results[1].idx # 0
    /\ result.tensors[1] # result.tensors[3]
====
